---- MODULE Spec2Model ----
(***************************************************************************)
(* The artifact build pipeline of clice (Compiler.cpp): session            *)
(* construction, preamble/module reuse, the frontend-action executor and   *)
(* the four build entry points buildAST, buildPCH, buildPCM and            *)
(* codeCompleteAt.  Every entry point is followed statement by statement:  *)
(* a caller's pc names the statement it executes next.  Calls into the     *)
(* clang frontend whose outcome the pipeline only observes (createTarget,  *)
(* BeginSourceFile, Execute) succeed or fail nondeterministically.         *)
(***************************************************************************)
EXTENDS Integers, Sequences, FiniteSets, TLC

(***************************************************************************)
(* Bounds of the model.                                                    *)
(***************************************************************************)
\* Source texts have at most this many leading directive lines.
MaxDirectives == 1

(***************************************************************************)
(* Inputs.                                                                 *)
(***************************************************************************)
\* The callers (threads) that may run builds; each owns its params,
\* its session and its locals.
Callers == {1, 2}

EntryPoints == {"buildAST", "buildPCH", "buildPCM", "codeCompleteAt"}

\* A text is a sequence of bytes: "#" opens a preprocessor directive that
\* runs to the end of its line, "n" is a line break, "x" is a byte of code.
RECURSIVE Directives(_)
Directives(k) == IF k = 0 THEN <<>> ELSE <<"#", "n">> \o Directives(k - 1)

Contents ==
    UNION {{Directives(k), Directives(k) \o <<"x">>} : k \in 0..MaxDirectives}

\* Command lines: each argument is the tuple of its parts.  The last
\* argument is the input file, so FrontendOpts.Inputs is never empty.
PlainArgs == << <<"-std=c++20">>, <<"a.cpp">> >>
ModuleArgs == << <<"-std=c++20">>, <<"-fmodule-file=", "M", "cmd.pcm">>, <<"a.cpp">> >>
ArgLists == {PlainArgs, ModuleArgs}

OutPaths == {"o1", "o2"}

\* clang::PreambleBounds
PreambleBounds(size, atStart) == [Size |-> size, PreambleEndsAtStartOfLine |-> atStart]

\* Module name -> path maps (llvm::StringMap: unique keys, no order).
NoModules == [n \in {} |-> ""]
ModuleMaps == {NoModules, [n \in {"M"} |-> "m.pcm"],
               [n \in {"M", "N"} |-> IF n = "M" THEN "m.pcm" ELSE "n.pcm"]}

\* CompliationParams as a caller may fill it in.
ParamsSet ==
    [path : {"a.cpp", "b.h"}, mainpath : {"a.cpp"}, content : Contents,
     args : ArgLists, pch : {"", "o1"},
     bounds : {PreambleBounds(0, FALSE), PreambleBounds(0, TRUE), PreambleBounds(2, TRUE)},
     pcms : ModuleMaps, outpath : OutPaths]

(***************************************************************************)
(* Preamble Boundary Detector: clang::Lexer::ComputePreamble, a raw        *)
(* tokenization of the buffer.  It stops at the first token that is not    *)
(* part of a leading directive line and reports that token's byte offset   *)
(* and whether it starts a line; the end-of-file token of a raw lexer      *)
(* never carries the start-of-line flag.                                   *)
(***************************************************************************)
\* Index of the first byte after the line that holds byte i.
RECURSIVE SkipLine(_, _)
SkipLine(Buffer, i) ==
    IF i > Len(Buffer) THEN i
    ELSE IF Buffer[i] = "n" THEN i + 1
    ELSE SkipLine(Buffer, i + 1)

\* Number of bytes in the first MaxLines lines; 0 when MaxLines is 0 or the
\* buffer has no more than MaxLines lines.
RECURSIVE LineOffset(_, _, _)
LineOffset(Buffer, i, lines) ==
    IF lines = 0 THEN (IF i > Len(Buffer) THEN 0 ELSE i - 1)
    ELSE IF i > Len(Buffer) THEN 0
    ELSE LineOffset(Buffer, i + 1, IF Buffer[i] = "n" THEN lines - 1 ELSE lines)

MaxLineOffset(Buffer, MaxLines) ==
    IF MaxLines = 0 THEN 0 ELSE LineOffset(Buffer, 1, MaxLines)

RECURSIVE LexPreamble(_, _, _)
LexPreamble(Buffer, i, maxLineOffset) ==
    IF i > Len(Buffer) THEN PreambleBounds(Len(Buffer), FALSE)
    ELSE IF Buffer[i] = "n" THEN LexPreamble(Buffer, i + 1, maxLineOffset)
    ELSE IF maxLineOffset # 0 /\ i - 1 >= maxLineOffset THEN PreambleBounds(i - 1, TRUE)
    ELSE IF Buffer[i] = "#" THEN LexPreamble(Buffer, SkipLine(Buffer, i), maxLineOffset)
    ELSE PreambleBounds(i - 1, TRUE)

\* LangOpts does not change how the bytes "#", "n", "x" are tokenized.
ComputePreamble(Buffer, LangOpts, MaxLines) ==
    LexPreamble(Buffer, 1, MaxLineOffset(Buffer, MaxLines))

\* llvm::StringRef::substr(0, n)
Substr(text, n) == SubSeq(text, 1, IF n < Len(text) THEN n ELSE Len(text))

(***************************************************************************)
(* Session Factory: createInstance and adjustInvocation.                   *)
(***************************************************************************)
\* The -fmodule-file=<name>=<file> arguments of a command line.
RECURSIVE ModuleFileArgs(_, _)
ModuleFileArgs(args, i) ==
    IF i > Len(args) THEN NoModules
    ELSE LET rest == ModuleFileArgs(args, i + 1)
         IN  IF args[i][1] = "-fmodule-file=" /\ args[i][2] \notin DOMAIN rest
             THEN (args[i][2] :> args[i][3]) @@ rest
             ELSE rest

NoCompletion == [Line |-> 0, Column |-> 0, FileName |-> ""]

\* clang::createInvocation: the invocation the driver derives from args.
createInvocation(args) ==
    [Inputs |-> <<args[Len(args)][1]>>,
     DisableFree |-> TRUE,
     ParseAllComments |-> FALSE,
     RetainCommentsFromSystemHeaders |-> FALSE,
     CompilingPCH |-> FALSE,
     OutputFile |-> "",
     ProgramAction |-> "ParseSyntaxOnly",
     CodeCompletionAt |-> NoCompletion,
     UsePredefines |-> TRUE,
     ImplicitPCHInclude |-> "",
     PrecompiledPreambleBytes |-> <<0, FALSE>>,
     DisablePCHOrModuleValidation |-> "None",
     GeneratePreamble |-> FALSE,
     RemappedFiles |-> <<>>,
     PrebuiltModuleFiles |-> ModuleFileArgs(args, 1)]

\* A factory that leaves the driver's comment options as they are.
adjustInvocation_DriverComments(invocation) ==
    [invocation EXCEPT !.DisableFree = FALSE]

\* Lines 7-16: the fixed policy put on every invocation.
adjustInvocation(invocation) ==
    [invocation EXCEPT !.DisableFree = FALSE,
                       !.ParseAllComments = TRUE,
                       !.RetainCommentsFromSystemHeaders = TRUE]

\* A CompilerInstance: its invocation's options, the diagnostics sink, the
\* code-completion consumer and whether a target has been created.
createInstance(args) ==
    [opts |-> adjustInvocation(createInvocation(args)),
     diagnostics |-> "TextDiagnosticPrinter",
     consumer |-> "none",
     target |-> FALSE]

\* PreprocessorOptions::addRemappedFile
addRemappedFile(instance, path, buffer) ==
    [instance EXCEPT !.opts.RemappedFiles = Append(@, <<path, buffer>>)]

(***************************************************************************)
(* Reuse Binder: applyPreamble.  It works on the caller's params by        *)
(* reference and moves the strings out of it; a moved-from std::string is  *)
(* left empty.                                                             *)
(***************************************************************************)
MovedFrom(s) == ""

\* std::map::try_emplace: an existing key keeps its value.
try_emplace(files, name, path) ==
    IF name \in DOMAIN files THEN files ELSE (name :> path) @@ files

\* A binder that keys on the prior-preamble reference instead of the bounds.
bindPreamble_OnPch(st) ==
    IF st.params.pch # ""
    THEN [instance |->
              [st.instance EXCEPT
                  !.opts.UsePredefines = FALSE,
                  !.opts.ImplicitPCHInclude = st.params.pch,
                  !.opts.PrecompiledPreambleBytes =
                      <<st.params.bounds.Size, st.params.bounds.PreambleEndsAtStartOfLine>>,
                  !.opts.DisablePCHOrModuleValidation = "PCH"],
          params |-> [st.params EXCEPT !.pch = MovedFrom(@)]]
    ELSE st

\* A binder that leaves the validation of the preamble switched on.
bindPreamble_KeepsValidation(st) ==
    IF st.params.bounds.Size # 0
    THEN [instance |->
              [st.instance EXCEPT
                  !.opts.UsePredefines = FALSE,
                  !.opts.ImplicitPCHInclude = st.params.pch,
                  !.opts.PrecompiledPreambleBytes =
                      <<st.params.bounds.Size, st.params.bounds.PreambleEndsAtStartOfLine>>],
          params |-> [st.params EXCEPT !.pch = MovedFrom(@)]]
    ELSE st

\* Lines 41-47: the preamble options.
bindPreamble(st) ==
    IF st.params.bounds.Size # 0
    THEN [instance |->
              [st.instance EXCEPT
                  !.opts.UsePredefines = FALSE,
                  !.opts.ImplicitPCHInclude = st.params.pch,
                  !.opts.PrecompiledPreambleBytes =
                      <<st.params.bounds.Size, st.params.bounds.PreambleEndsAtStartOfLine>>,
                  !.opts.DisablePCHOrModuleValidation = "PCH"],
          params |-> [st.params EXCEPT !.pch = MovedFrom(@)]]
    ELSE st

\* Lines 49-52: the loop over pcms; names are the entries not yet visited.
\* try_emplace moves from path only when it inserts.
RECURSIVE bindModules(_, _)
bindModules(st, names) ==
    IF names = {} THEN st
    ELSE LET name == CHOOSE n \in names : TRUE
             files == st.instance.opts.PrebuiltModuleFiles
             inserted == name \notin DOMAIN files
             next ==
                 [instance |->
                      [st.instance EXCEPT !.opts.PrebuiltModuleFiles =
                           try_emplace(files, name, st.params.pcms[name])],
                  params |->
                      IF inserted
                      THEN [st.params EXCEPT !.pcms[name] = MovedFrom(@)]
                      ELSE st.params]
         IN  bindModules(next, names \ {name})

\* A binder whose loop over pcms sits inside the if of line 41.
applyPreamble_ModulesInsideIf(instance, params) ==
    LET st == bindPreamble([instance |-> instance, params |-> params])
    IN  IF params.bounds.Size # 0 THEN bindModules(st, DOMAIN params.pcms) ELSE st

\* applyPreamble(instance, params): the session and the params afterwards.
applyPreamble(instance, params) ==
    LET st == bindPreamble([instance |-> instance, params |-> params])
    IN  bindModules(st, DOMAIN params.pcms)

(***************************************************************************)
(* State.                                                                  *)
(***************************************************************************)
VARIABLES
    pc,         \* per caller: the statement it executes next
    mode,       \* per caller: the entry point it is in
    params,     \* per caller: its CompliationParams object
    request,    \* per caller: line, column, file, consumer of codeCompleteAt
    instance,   \* per caller: the unique_ptr<CompilerInstance> (<<>> is null)
    bounds,     \* per caller: buildPCH's local bounds
    action,     \* per caller: ExecuteAction's unique_ptr<ASTFrontendAction>
    collector,  \* per caller: ExecuteAction's TokenCollector
    info,       \* per caller: what ExecuteAction returned to buildPCH/buildPCM
    result,     \* per caller: what the entry point returned to the caller
    store,      \* the completed artifacts the callers keep for reuse
    halted,     \* std::terminate has ended the process
    given,      \* per caller (history): params as it was when the call began
    log,        \* per caller (history): the statements the call has executed
    input,      \* the arguments of a call into the inlay-hint feature
    output      \* what that call produced

vars == <<pc, mode, params, request, instance, bounds, action, collector, info,
          result, store, halted, given, log, input, output>>

\* The state of the build pipeline, and the state of the inlay-hint
\* feature, which no build touches.
buildVars == <<pc, mode, params, request, instance, bounds, action, collector, info,
               result, store, halted, given, log>>
hintVars == <<input, output>>

\* No call into the inlay-hint feature has been made.
NoInput == [fn |-> "none"]
NoOutput == [fn |-> "none"]

DefaultParams ==
    [path |-> "", mainpath |-> "", content |-> <<>>, args |-> PlainArgs, pch |-> "",
     bounds |-> PreambleBounds(0, FALSE), pcms |-> NoModules, outpath |-> ""]

NoRequest == [line |-> 0, column |-> 0, file |-> "", consumer |-> "none"]
Requests == {[line |-> 1, column |-> 2, file |-> "a.cpp", consumer |-> "sink"]}

NoAction == [kind |-> "none", state |-> "none"]
NoResult == [tag |-> "None"]
NoArtifact == <<>>

\* clice::error(message): a Failure; cause is the error Execute returned.
error(message, cause) == [tag |-> "Failure", message |-> message, cause |-> cause]

\* No build has been called.
NoBuild ==
    /\ pc = [t \in Callers |-> "idle"]
    /\ mode = [t \in Callers |-> "none"]
    /\ params = [t \in Callers |-> DefaultParams]
    /\ request = [t \in Callers |-> NoRequest]
    /\ instance = [t \in Callers |-> <<>>]
    /\ bounds = [t \in Callers |-> PreambleBounds(0, FALSE)]
    /\ action = [t \in Callers |-> NoAction]
    /\ collector = [t \in Callers |-> "none"]
    /\ info = [t \in Callers |-> NoResult]
    /\ result = [t \in Callers |-> NoResult]
    /\ store = [pch |-> NoArtifact, pcm |-> NoArtifact]
    /\ halted = FALSE
    /\ given = [t \in Callers |-> DefaultParams]
    /\ log = [t \in Callers |-> <<>>]

Init ==
    /\ NoBuild
    /\ input = NoInput
    /\ output = NoOutput

\* The call of caller t has executed the statement named event.
Logged(t, event) ==
    /\ log' = [log EXCEPT ![t] = Append(@, event)]
    /\ UNCHANGED given

(***************************************************************************)
(* A caller invokes an entry point on a params object: one it has just     *)
(* filled in, or the object of its previous call as that call left it.     *)
(***************************************************************************)
Invoke(t, m, p, r) ==
    /\ mode' = [mode EXCEPT ![t] = m]
    /\ params' = [params EXCEPT ![t] = p]
    /\ request' = [request EXCEPT ![t] = IF m = "codeCompleteAt" THEN r ELSE NoRequest]
    /\ result' = [result EXCEPT ![t] = NoResult]
    /\ info' = [info EXCEPT ![t] = NoResult]
    /\ bounds' = [bounds EXCEPT ![t] = PreambleBounds(0, FALSE)]
    /\ pc' = [pc EXCEPT ![t] = "createInstance"]
    /\ given' = [given EXCEPT ![t] = p]
    /\ log' = [log EXCEPT ![t] = <<>>]
    /\ UNCHANGED <<instance, action, collector, store, halted>>
    /\ UNCHANGED hintVars

\* A call on a params object the caller has just filled in.
Call(t, m, p, r) ==
    /\ ~halted
    /\ pc[t] = "idle"
    /\ Invoke(t, m, p, r)

\* A further call on the params object of the call that has just returned.
Recall(t, m, r) ==
    /\ ~halted
    /\ pc[t] = "returned"
    /\ Invoke(t, m, params[t], r)

\* The caller destroys the returned value and its params object.
Release(t) ==
    /\ ~halted
    /\ pc[t] = "returned"
    /\ pc' = [pc EXCEPT ![t] = "idle"]
    /\ mode' = [mode EXCEPT ![t] = "none"]
    /\ params' = [params EXCEPT ![t] = DefaultParams]
    /\ request' = [request EXCEPT ![t] = NoRequest]
    /\ result' = [result EXCEPT ![t] = NoResult]
    /\ bounds' = [bounds EXCEPT ![t] = PreambleBounds(0, FALSE)]
    /\ given' = [given EXCEPT ![t] = DefaultParams]
    /\ log' = [log EXCEPT ![t] = <<>>]
    /\ UNCHANGED <<instance, action, collector, info, store, halted>>
    /\ UNCHANGED hintVars

\* Every entry point, buildPCH too, calls applyPreamble.
appliesPreamble_Always(m) == TRUE

\* Whether an entry point calls applyPreamble: lines 109, 154 and 181;
\* buildPCH has no such call.
appliesPreamble(m) == m # "buildPCH"

\* Entry points that call applyPreamble before they remap the text.
successor_BindsFirst(m, at) ==
    CASE at = "createInstance" ->
           (CASE m = "buildAST" -> "applyPreamble"
              [] m = "buildPCH" -> "computeBounds"
              [] OTHER -> "setOptions")
      [] at = "computeBounds" -> "setOptions"
      [] at = "setOptions" -> IF appliesPreamble(m) THEN "applyPreamble" ELSE "remap"
      [] at = "applyPreamble" -> "remap"
      [] OTHER -> "executeAction"

\* The statement that follows statement at in entry point m, up to the call
\* of ExecuteAction.
successor(m, at) ==
    CASE at = "createInstance" ->
           (CASE m = "buildAST" -> "remap"
              [] m = "buildPCH" -> "computeBounds"
              [] OTHER -> "setOptions")
      [] at = "computeBounds" -> "setOptions"
      [] at = "setOptions" -> "remap"
      [] at = "remap" -> IF appliesPreamble(m) THEN "applyPreamble" ELSE "executeAction"
      [] OTHER -> "executeAction"

\* Lines 104, 115, 145, 169: auto instance = createInstance(params.args).
CreateInstance(t) ==
    /\ ~halted
    /\ pc[t] = "createInstance"
    /\ instance' = [instance EXCEPT ![t] = <<createInstance(params[t].args)>>]
    /\ pc' = [pc EXCEPT ![t] = successor(mode[t], "createInstance")]
    /\ Logged(t, "createInstance")
    /\ UNCHANGED <<mode, params, request, bounds, action, collector, info, result,
                   store, halted>>
    /\ UNCHANGED hintVars

\* A buildPCH that takes the caller's bounds when they are set.
pchBounds_TrustsSupplied(p) ==
    IF p.bounds.Size # 0 THEN p.bounds ELSE ComputePreamble(p.content, "LangOptions{}", 0)

\* Line 120: the bounds buildPCH computes, with default LangOptions and no
\* line limit.
DefaultLangOpts == "LangOptions{}"
pchBounds(p) == ComputePreamble(p.content, DefaultLangOpts, 0)

\* Lines 117-125 of buildPCH: compute the bounds, or std::terminate.
ComputeBounds(t) ==
    /\ ~halted
    /\ pc[t] = "computeBounds"
    /\ IF params[t].mainpath = params[t].path
       THEN /\ bounds' = [bounds EXCEPT ![t] = pchBounds(params[t])]
            /\ pc' = [pc EXCEPT ![t] = successor(mode[t], "computeBounds")]
            /\ Logged(t, "computeBounds")
            /\ UNCHANGED halted
       ELSE /\ halted' = TRUE
            /\ pc' = [pc EXCEPT ![t] = "terminated"]
            /\ Logged(t, "terminate")
            /\ UNCHANGED bounds
    /\ UNCHANGED <<mode, params, request, instance, action, collector, info, result,
                   store>>
    /\ UNCHANGED hintVars

\* Lines 128-132 (buildPCH), 148-149 (buildPCM), 172-175 (codeCompleteAt).
setOptions(m, inst, p, r) ==
    CASE m = "buildPCH" ->
           [inst EXCEPT !.opts.OutputFile = p.outpath,
                        !.opts.ProgramAction = "GeneratePCH",
                        !.opts.PrecompiledPreambleBytes = <<0, FALSE>>,
                        !.opts.GeneratePreamble = TRUE,
                        !.opts.CompilingPCH = TRUE]
      [] m = "buildPCM" ->
           [inst EXCEPT !.opts.OutputFile = p.outpath,
                        !.opts.ProgramAction = "GenerateReducedModuleInterface"]
      [] m = "codeCompleteAt" ->
           [inst EXCEPT !.opts.CodeCompletionAt =
                            [Line |-> r.line, Column |-> r.column, FileName |-> r.file],
                        !.consumer = r.consumer]
      [] OTHER -> inst

SetOptions(t) ==
    /\ ~halted
    /\ pc[t] = "setOptions"
    /\ instance' = [instance EXCEPT ![t] =
                       <<setOptions(mode[t], instance[t][1], params[t], request[t])>>]
    /\ pc' = [pc EXCEPT ![t] = successor(mode[t], "setOptions")]
    /\ Logged(t, "setOptions")
    /\ UNCHANGED <<mode, params, request, bounds, action, collector, info, result,
                   store, halted>>
    /\ UNCHANGED hintVars

\* A buildPCH that remaps the whole text of the unit.
remapBuffer_WholeText(m, p, b) == p.content

\* The buffer an entry point remaps over params.path: lines 106, 134, 151, 177.
remapBuffer(m, p, b) == IF m = "buildPCH" THEN Substr(p.content, b.Size) ELSE p.content

\* Lines 106-107, 134-135, 151-152, 177-179.
Remap(t) ==
    /\ ~halted
    /\ pc[t] = "remap"
    /\ instance' = [instance EXCEPT ![t] =
                       <<addRemappedFile(instance[t][1], params[t].path,
                                         remapBuffer(mode[t], params[t], bounds[t]))>>]
    /\ pc' = [pc EXCEPT ![t] = successor(mode[t], "remap")]
    /\ Logged(t, "remap")
    /\ UNCHANGED <<mode, params, request, bounds, action, collector, info, result,
                   store, halted>>
    /\ UNCHANGED hintVars

\* A binder that moves the path out of the kept preamble itself.
ApplyPreamble_MovesFromArtifact(t) ==
    /\ ~halted
    /\ pc[t] = "applyPreamble"
    /\ LET st == applyPreamble(instance[t][1], params[t])
       IN  /\ instance' = [instance EXCEPT ![t] = <<st.instance>>]
           /\ params' = [params EXCEPT ![t] = st.params]
    /\ store' = IF store.pch # <<>> /\ params[t].bounds.Size # 0
                THEN [store EXCEPT !.pch = <<[@[1] EXCEPT !.path = MovedFrom(@)]>>]
                ELSE store
    /\ pc' = [pc EXCEPT ![t] = successor(mode[t], "applyPreamble")]
    /\ Logged(t, "applyPreamble")
    /\ UNCHANGED <<mode, request, bounds, action, collector, info, result, halted>>
    /\ UNCHANGED hintVars

\* A binder that binds a kept preamble only to the unit and the text it was
\* built from.
ApplyPreamble_ChecksStaleness(t) ==
    /\ ~halted
    /\ pc[t] = "applyPreamble"
    /\ LET stale == /\ store.pch # <<>>
                     /\ \/ store.pch[1].mainpath # params[t].path
                        \/ store.pch[1].preamble #
                               Substr(params[t].content, params[t].bounds.Size)
           st == IF stale THEN [instance |-> instance[t][1], params |-> params[t]]
                 ELSE applyPreamble(instance[t][1], params[t])
       IN  /\ instance' = [instance EXCEPT ![t] = <<st.instance>>]
           /\ params' = [params EXCEPT ![t] = st.params]
    /\ pc' = [pc EXCEPT ![t] = successor(mode[t], "applyPreamble")]
    /\ Logged(t, "applyPreamble")
    /\ UNCHANGED <<mode, request, bounds, action, collector, info, result, store, halted>>
    /\ UNCHANGED hintVars

\* Lines 109, 154, 181: applyPreamble(*instance, params).
ApplyPreamble(t) ==
    /\ ~halted
    /\ pc[t] = "applyPreamble"
    /\ LET st == applyPreamble(instance[t][1], params[t])
       IN  /\ instance' = [instance EXCEPT ![t] = <<st.instance>>]
           /\ params' = [params EXCEPT ![t] = st.params]
    /\ pc' = [pc EXCEPT ![t] = successor(mode[t], "applyPreamble")]
    /\ Logged(t, "applyPreamble")
    /\ UNCHANGED <<mode, request, bounds, action, collector, info, result, store, halted>>
    /\ UNCHANGED hintVars

(***************************************************************************)
(* Action Executor: ExecuteAction(instance, kind, collectPP = true).       *)
(***************************************************************************)
\* Entry points of which one, buildPCM, asks for a full module interface.
actionKind_FullInterface(m) ==
    CASE m = "buildPCH" -> "GeneratePCH"
      [] m = "buildPCM" -> "GenerateModuleInterface"
      [] OTHER -> "ParseSyntaxOnly"

\* The kind each entry point passes: lines 111, 137, 157, 183.
actionKind(m) ==
    CASE m = "buildPCH" -> "GeneratePCH"
      [] m = "buildPCM" -> "GenerateReducedModuleInterface"
      [] OTHER -> "ParseSyntaxOnly"

\* The collectPP each entry point passes: only codeCompleteAt (line 183)
\* passes false, the others take the default argument of line 57.
collectPP(m) == m # "codeCompleteAt"

SupportedKinds == {"ParseSyntaxOnly", "GeneratePCH", "GenerateReducedModuleInterface"}

\* An executor whose caller still holds the session and the action after
\* the return.
Return_KeepsSession(t, value) ==
    /\ UNCHANGED <<instance, action>>
    /\ collector' = [collector EXCEPT ![t] = "none"]
    /\ IF mode[t] \in {"buildPCH", "buildPCM"}
       THEN /\ info' = [info EXCEPT ![t] = value]
            /\ pc' = [pc EXCEPT ![t] = "wrap"]
            /\ UNCHANGED result
       ELSE /\ result' = [result EXCEPT ![t] = value]
            /\ pc' = [pc EXCEPT ![t] = "returned"]
            /\ UNCHANGED info

\* ExecuteAction returns value: its by-value instance, its action and its
\* collector are moved into the value or destroyed.  buildAST and
\* codeCompleteAt return the value as it is, buildPCH and buildPCM receive it.
Return(t, value) ==
    /\ instance' = [instance EXCEPT ![t] = <<>>]
    /\ action' = [action EXCEPT ![t] = NoAction]
    /\ collector' = [collector EXCEPT ![t] = "none"]
    /\ IF mode[t] \in {"buildPCH", "buildPCM"}
       THEN /\ info' = [info EXCEPT ![t] = value]
            /\ pc' = [pc EXCEPT ![t] = "wrap"]
            /\ UNCHANGED result
       ELSE /\ result' = [result EXCEPT ![t] = value]
            /\ pc' = [pc EXCEPT ![t] = "returned"]
            /\ UNCHANGED info

\* Lines 58-68: make the action for the kind, or std::terminate.
MakeAction(t) ==
    /\ ~halted
    /\ pc[t] = "executeAction"
    /\ IF actionKind(mode[t]) \in SupportedKinds
       THEN /\ action' = [action EXCEPT ![t] =
                             [kind |-> actionKind(mode[t]), state |-> "created"]]
            /\ pc' = [pc EXCEPT ![t] = "createTarget"]
            /\ Logged(t, "makeAction")
            /\ UNCHANGED halted
       ELSE /\ halted' = TRUE
            /\ pc' = [pc EXCEPT ![t] = "terminated"]
            /\ Logged(t, "terminate")
            /\ UNCHANGED action
    /\ UNCHANGED <<mode, params, request, instance, bounds, collector, info, result,
                   store>>
    /\ UNCHANGED hintVars

\* An executor that goes on to BeginSourceFile when createTarget failed.
CreateTarget_GoesOn(t) ==
    /\ ~halted
    /\ pc[t] = "createTarget"
    /\ \E ok \in BOOLEAN :
          /\ instance' = [instance EXCEPT ![t] = <<[@[1] EXCEPT !.target = ok]>>]
          /\ Logged(t, IF ok THEN "createTarget:ok" ELSE "createTarget:failed")
    /\ pc' = [pc EXCEPT ![t] = "beginSourceFile"]
    /\ UNCHANGED <<mode, params, request, bounds, action, collector, info, result,
                   store, halted>>
    /\ UNCHANGED hintVars

\* Lines 70-72: instance->createTarget().
CreateTarget(t) ==
    /\ ~halted
    /\ pc[t] = "createTarget"
    /\ \E ok \in BOOLEAN :
          IF ok
          THEN /\ instance' = [instance EXCEPT ![t] = <<[@[1] EXCEPT !.target = TRUE]>>]
               /\ pc' = [pc EXCEPT ![t] = "beginSourceFile"]
               /\ Logged(t, "createTarget:ok")
               /\ UNCHANGED <<action, collector, info, result>>
          ELSE /\ Return(t, error("Failed to create target", ""))
               /\ Logged(t, "createTarget:failed")
    /\ UNCHANGED <<mode, params, request, bounds, store, halted>>
    /\ UNCHANGED hintVars

\* Lines 74-76: action->BeginSourceFile(*instance, Inputs[0]).
BeginSourceFile(t) ==
    /\ ~halted
    /\ pc[t] = "beginSourceFile"
    /\ \E ok \in BOOLEAN :
          IF ok
          THEN /\ action' = [action EXCEPT ![t].state = "begun"]
               /\ pc' = [pc EXCEPT ![t] = "collect"]
               /\ Logged(t, "BeginSourceFile:ok")
               /\ UNCHANGED <<instance, collector, info, result>>
          ELSE /\ Return(t, error("Failed to begin source file", ""))
               /\ Logged(t, "BeginSourceFile:failed")
    /\ UNCHANGED <<mode, params, request, bounds, store, halted>>
    /\ UNCHANGED hintVars

\* An executor that puts the TokenCollector on the preprocessor the session
\* has before BeginSourceFile.
Collect_BeforeBegin(t) ==
    /\ ~halted
    /\ pc[t] = "beginSourceFile"
    /\ collectPP(mode[t])
    /\ collector[t] = "none"
    /\ collector' = [collector EXCEPT ![t] = "attached"]
    /\ Logged(t, "collect")
    /\ UNCHANGED <<pc, mode, params, request, instance, bounds, action, info, result,
                   store, halted>>
    /\ UNCHANGED hintVars

\* Lines 82-84: if(collectPP) a TokenCollector is put on the preprocessor.
Collect(t) ==
    /\ ~halted
    /\ pc[t] = "collect"
    /\ collector' = [collector EXCEPT ![t] =
                        IF collectPP(mode[t]) THEN "attached" ELSE "none"]
    /\ pc' = [pc EXCEPT ![t] = "execute"]
    /\ Logged(t, IF collectPP(mode[t]) THEN "collect" ELSE "skipCollect")
    /\ UNCHANGED <<mode, params, request, instance, bounds, action, info, result,
                   store, halted>>
    /\ UNCHANGED hintVars

\* What action->Execute() may return: success ("") or an error.
ExecuteErrors == {"", "fatal error"}

\* Lines 86-88 and 95-97: action->Execute().
Execute(t) ==
    /\ ~halted
    /\ pc[t] = "execute"
    /\ \E err \in ExecuteErrors :
          IF err = ""
          THEN /\ action' = [action EXCEPT ![t].state = "executed"]
               /\ pc' = [pc EXCEPT ![t] = "package"]
               /\ Logged(t, "Execute:ok")
               /\ UNCHANGED <<instance, collector, info, result>>
          ELSE /\ Return(t, error("Failed to execute action, because {} ", err))
               /\ Logged(t, "Execute:failed")
    /\ UNCHANGED <<mode, params, request, bounds, store, halted>>
    /\ UNCHANGED hintVars

\* Lines 90-93 and 99: ASTInfo(action, instance, tokBuf or nullptr).
ASTInfo(act, inst, tokBuf) ==
    [tag |-> "ASTInfo", action |-> act, instance |-> inst, tokBuf |-> tokBuf]

Package(t) ==
    /\ ~halted
    /\ pc[t] = "package"
    /\ Return(t, ASTInfo(action[t], instance[t][1],
                         IF collector[t] = "attached" THEN "indexed" ELSE "null"))
    /\ Logged(t, "package")
    /\ UNCHANGED <<mode, params, request, bounds, store, halted>>
    /\ UNCHANGED hintVars

\* The constructors of PCHInfo and PCMInfo (Compiler.h): a PCHInfo keeps the
\* output path, the text of the preamble, which is the content within the
\* bounds, the path of the unit and the bounds; a PCMInfo the output path.
PCHInfo(astInfo, path, content, mainpath, preambleBounds) ==
    [tag |-> "PCHInfo", info |-> astInfo, path |-> path,
     preamble |-> Substr(content, preambleBounds.Size), mainpath |-> mainpath,
     bounds |-> preambleBounds]

PCMInfo(astInfo, path) == [tag |-> "PCMInfo", info |-> astInfo, path |-> path]

\* A wrapper that does not look at whether ExecuteAction failed.
wrap_Unchecked(m, value, p, b) ==
    IF m = "buildPCH"
    THEN PCHInfo(value, p.outpath, p.content, p.mainpath, b)
    ELSE PCMInfo(value, p.outpath)

\* A wrapper that reports a failure of its own in place of the executor's.
wrap_OwnFailure(m, value, p, b) ==
    IF value.tag = "ASTInfo"
    THEN IF m = "buildPCH"
         THEN PCHInfo(value, p.outpath, p.content, p.mainpath, b)
         ELSE PCMInfo(value, p.outpath)
    ELSE error("Failed to build", "")

\* Lines 137-141 and 156-161: wrap the ASTInfo, or pass the error on.
wrap(m, value, p, b) ==
    IF value.tag = "ASTInfo"
    THEN IF m = "buildPCH"
         THEN PCHInfo(value, p.outpath, p.content, p.mainpath, b)
         ELSE PCMInfo(value, p.outpath)
    ELSE value

Wrap(t) ==
    /\ ~halted
    /\ pc[t] = "wrap"
    /\ result' = [result EXCEPT ![t] = wrap(mode[t], info[t], params[t], bounds[t])]
    /\ info' = [info EXCEPT ![t] = NoResult]
    /\ pc' = [pc EXCEPT ![t] = "returned"]
    /\ Logged(t, "wrap")
    /\ UNCHANGED <<mode, params, request, instance, bounds, action, collector, store,
                   halted>>
    /\ UNCHANGED hintVars

(***************************************************************************)
(* The caller keeps a returned PCHInfo or PCMInfo for later builds.        *)
(***************************************************************************)
\* What is kept of a returned artifact; text (history) is the content the
\* call that built it was given.
artifact(r, text) ==
    IF r.tag = "PCHInfo"
    THEN [path |-> r.path, preamble |-> r.preamble, mainpath |-> r.mainpath,
          bounds |-> r.bounds, text |-> text]
    ELSE [path |-> r.path, text |-> text]

Keep(t) ==
    /\ ~halted
    /\ pc[t] = "returned"
    /\ result[t].tag \in {"PCHInfo", "PCMInfo"}
    /\ store' = IF result[t].tag = "PCHInfo"
                THEN [store EXCEPT !.pch = <<artifact(result[t], given[t].content)>>]
                ELSE [store EXCEPT !.pcm = <<artifact(result[t], given[t].content)>>]
    /\ store' # store
    /\ UNCHANGED <<pc, mode, params, request, instance, bounds, action, collector,
                   info, result, halted, given, log>>
    /\ UNCHANGED hintVars

(***************************************************************************)
(* Specifications.                                                         *)
(***************************************************************************)
\* One statement of a build in progress.
BuildStep(t) ==
    \/ CreateInstance(t)
    \/ ComputeBounds(t)
    \/ SetOptions(t)
    \/ Remap(t)
    \/ ApplyPreamble(t)
    \/ MakeAction(t)
    \/ CreateTarget(t)
    \/ BeginSourceFile(t)
    \/ Collect(t)
    \/ Execute(t)
    \/ Package(t)
    \/ Wrap(t)

\* What a caller does between builds.
CallerStep(t, inputs) ==
    \/ \E m \in EntryPoints, p \in inputs, r \in Requests : Call(t, m, p, r)
    \/ \E m \in EntryPoints, r \in Requests : Recall(t, m, r)
    \/ Release(t)

\* One caller, all inputs, no artifact kept.
Next ==
    \/ CallerStep(1, ParamsSet)
    \/ BuildStep(1)

Spec == Init /\ [][Next]_vars

\* Two callers building concurrently, each on its own params and session,
\* and keeping the artifacts they build: a preamble at "o1" with the
\* bounds of its text, a module interface at "o2".
ConcParams ==
    [path : {"a.cpp"}, mainpath : {"a.cpp"}, content : {<<"#", "n", "x">>},
     args : {PlainArgs}, pch : {"o1"}, bounds : {PreambleBounds(2, TRUE)},
     pcms : {[n \in {"M"} |-> "o2"]}, outpath : OutPaths]

NextConc ==
    \E t \in Callers :
        \/ \E m \in EntryPoints, p \in ConcParams, r \in Requests : Call(t, m, p, r)
        \/ Release(t)
        \/ BuildStep(t)
        \/ Keep(t)

SpecConc == Init /\ [][NextConc]_vars

\* One caller that keeps the preambles it builds; every field that
\* buildPCH reads or could read varies, the unit is self-contained.
KeepParams ==
    [path : {"a.cpp"}, mainpath : {"a.cpp"}, content : Contents, args : ArgLists,
     pch : {"", "o1"}, bounds : {PreambleBounds(0, FALSE), PreambleBounds(2, TRUE)},
     pcms : {NoModules}, outpath : OutPaths]

NextKeep ==
    \/ CallerStep(1, KeepParams)
    \/ BuildStep(1)
    \/ Keep(1)

SpecKeep == Init /\ [][NextKeep]_vars

\* One caller that keeps the preamble it builds at "o1" and reuses it for
\* the unit it was built from or for another unit, with the text it was
\* built from or with another text.
StaleParams ==
    [path : {"a.cpp", "b.h"}, mainpath : {"a.cpp"},
     content : {<<"#", "n", "x">>, <<"x", "n", "x">>}, args : {PlainArgs},
     pch : {"o1"}, bounds : {PreambleBounds(0, FALSE), PreambleBounds(2, TRUE)},
     pcms : {NoModules}, outpath : {"o1"}]

NextStale ==
    \/ CallerStep(1, StaleParams)
    \/ BuildStep(1)
    \/ Keep(1)

SpecStale == Init /\ [][NextStale]_vars

\* One caller whose calls run on: a build in progress always takes its next
\* step, as each entry point is synchronous straight-line code and every
\* call into the frontend is taken to return.  The unit is self-contained
\* or a header of another main file.
LiveParams ==
    [path : {"a.cpp", "b.h"}, mainpath : {"a.cpp"}, content : {<<"#", "n", "x">>},
     args : {PlainArgs}, pch : {"", "o1"}, bounds : {PreambleBounds(2, TRUE)},
     pcms : {NoModules}, outpath : {"o1"}]

NextLive ==
    \/ CallerStep(1, LiveParams)
    \/ BuildStep(1)

SpecLive == Init /\ [][NextLive]_vars /\ WF_vars(BuildStep(1))

(***************************************************************************)
(* Inlay hints (InlayHint.cpp): shrinkHintText.                            *)
(***************************************************************************)
\* The hint texts of the model: every string of at most MaxTextLen
\* characters over Chars.
MaxTextLen == 4
Chars == {"a", "b"}

RECURSIVE TextsOfLen(_)
TextsOfLen(n) ==
    IF n = 0 THEN {<<>>}
    ELSE {Append(s, c) : s \in TextsOfLen(n - 1), c \in Chars}

Texts == UNION {TextsOfLen(n) : n \in 0..MaxTextLen}

\* config::InlayHintOption::maxLength is a uint16_t: the values around the
\* lengths of the texts, and the largest one.
UINT16_MAX == 65535
MaxLengths == 0..(MaxTextLen + 1) \cup {UINT16_MAX}

\* size_t arithmetic is modulo 2^SizeBits.  SizeBits stands for the 64 bits
\* of size_t: it is wider than uint16_t and than every text, so a
\* difference wraps around exactly when it does in the program.
SizeBits == 24
SizeModulus == 2 ^ SizeBits
SizeSub(a, b) == (a - b) % SizeModulus

\* std::string::max_size(): a quarter of the size_t range in libstdc++.
StringMaxSize == SizeModulus \div 4

\* What a call produced: a value it returned or an exception it threw.
Returned(value) == [thrown |-> "", value |-> value]
Thrown(exception) == [thrown |-> exception, value |-> <<>>]

Ellipsis == <<".", ".", ".">>

\* std::string::resize(n): cut to n characters, or pad with '\0'.
resize(text, n) ==
    IF n <= Len(text) THEN SubSeq(text, 1, n)
    ELSE text \o [i \in 1..(n - Len(text)) |-> "\\0"]

\* Lines 80-86.  resize throws std::length_error above max_size().
shrinkHintText(text, maxLength) ==
    IF Len(text) > maxLength
    THEN LET n == SizeSub(maxLength, 3)
         IN  IF n > StringMaxSize
             THEN Thrown("std::length_error")
             ELSE Returned(resize(text, n) \o Ellipsis)
    ELSE Returned(text)

(***************************************************************************)
(* Inlay hints: config::InlayHintOption and VisitInitListExpr.             *)
(***************************************************************************)
\* Lines 945-1004: the options with their default member initializers.
DefaultOption ==
    [maxLength |-> 30, maxArrayElements |-> 3, dedcucedType |-> TRUE,
     returnType |-> TRUE, blockEnd |-> FALSE, paramName |-> TRUE,
     structSizeAndAlign |-> TRUE, memberSizeAndOffset |-> TRUE,
     implicitCast |-> FALSE, chainCall |-> FALSE, numberLiteralToHex |-> FALSE,
     cstrLength |-> FALSE]

\* Lines 814-821: the options of the index overload of inlayHints.
enableAll ==
    [DefaultOption EXCEPT !.maxLength = 0, !.maxArrayElements = 0,
                          !.blockEnd = TRUE, !.implicitCast = TRUE,
                          !.chainCall = TRUE, !.numberLiteralToHex = TRUE,
                          !.cstrLength = TRUE]

\* The initializers of an InitListExpr: each is a DesignatedInitExpr or
\* not, and follows a hand-written comment or not.
MaxInits == 3
Initializers == [designated : BOOLEAN, commented : BOOLEAN]

RECURSIVE InitListsOfLen(_)
InitListsOfLen(n) ==
    IF n = 0 THEN {<<>>}
    ELSE {Append(l, e) : l \in InitListsOfLen(n - 1), e \in Initializers}

InitLists == UNION {InitListsOfLen(n) : n \in 0..MaxInits}

\* std::format("{}", index) for the indices of the model.
Decimal(index) == <<<<"0", "1", "2", "3", "4", "5", "6", "7", "8", "9">>[index + 1]>>

\* Lines 517-532: the hint for the element at location, labelled "[index]=".
collectArrayElemIndexHint(index, location) ==
    [kind |-> "ArrayIndex", offset |-> location,
     lable |-> <<"[">> \o Decimal(index) \o <<"]", "=">>]

\* Lines 534-548: the loop over Syn->inits() from element i on, count being
\* the number of elements hinted so far.
RECURSIVE visitInits(_, _, _, _)
visitInits(inits, i, count, config) ==
    IF i > Len(inits) THEN <<>>
    ELSE IF inits[i].designated \/ inits[i].commented
         THEN visitInits(inits, i + 1, count, config)
         ELSE IF count >= config.maxArrayElements
              THEN <<>>
              ELSE <<collectArrayElemIndexHint(count + 1, i)>>
                      \o visitInits(inits, i + 1, count + 1, config)

VisitInitListExpr(Syn, config) == visitInits(Syn, 1, 0, config)

(***************************************************************************)
(* Inlay hints: isAvailableWithOption and toLspType.                       *)
(***************************************************************************)
\* Lines 1018-1050: InlayHintKind::Kind.
InlayHintKinds ==
    {"Invalid", "AutoDecl", "StructureBinding", "Parameter", "Constructor",
     "FunctionReturnType", "LambdaReturnType", "IfBlockEnd", "SwitchBlockEnd",
     "WhileBlockEnd", "ForBlockEnd", "NamespaceEnd", "TagDeclEnd", "FunctionEnd",
     "LambdaBodyEnd", "ArrayIndex", "StructSizeAndAlign", "MemberSizeAndOffset",
     "ImplicitCast", "ChainCall", "NumberLiteralToHex", "CStrLength"}

\* Lines 705-737.
isAvailableWithOption(kind, config) ==
    CASE kind = "Invalid" -> FALSE
      [] kind \in {"AutoDecl", "StructureBinding"} -> config.dedcucedType
      [] kind \in {"Parameter", "Constructor"} -> config.paramName
      [] kind \in {"FunctionReturnType", "LambdaReturnType"} -> config.returnType
      [] kind \in {"IfBlockEnd", "SwitchBlockEnd", "WhileBlockEnd", "ForBlockEnd",
                   "NamespaceEnd", "TagDeclEnd", "FunctionEnd", "LambdaBodyEnd"} ->
            config.blockEnd
      [] kind = "ArrayIndex" -> config.maxArrayElements > 0
      [] kind = "StructSizeAndAlign" -> config.structSizeAndAlign
      [] kind = "MemberSizeAndOffset" -> config.memberSizeAndOffset
      [] kind = "ImplicitCast" -> config.implicitCast
      [] kind = "ChainCall" -> config.chainCall
      [] kind = "NumberLiteralToHex" -> config.numberLiteralToHex
      [] kind = "CStrLength" -> config.cstrLength

\* Lines 1057-1064.
isLspTypeKind(kind) ==
    kind \in {"AutoDecl", "StructureBinding", "FunctionReturnType", "LambdaReturnType",
              "ImplicitCast", "ChainCall"}

\* Lines 1072-1074: toLspType(InlayHintKind).
toLspKind(kind) == IF isLspTypeKind(kind) THEN "Type" ELSE "Parameter"

\* Lines 747-772: toLspType(Lable) and toLspType(InlayHint); the label is
\* shrunk to maxHintLength, and an exception of shrinkHintText passes through.
toLspHint(hint, maxHintLength) ==
    LET value == shrinkHintText(hint.lable, maxHintLength)
    IN  IF value.thrown # ""
        THEN value
        ELSE Returned([lable |-> <<value.value>>, kind |-> toLspKind(hint.kind),
                       position |-> hint.offset])

\* A std::optional<config::InlayHintOption>: empty, or holding a config.
nullopt == <<>>
has_value(config) == config # nullopt

\* config->maxLength (line 852).  On an optional without a value the
\* behaviour is undefined: the read yields the bytes found in the optional's
\* storage (garbage), or a checked operator-> ends the process (abort).
Dereference(config, garbage, abort) ==
    IF has_value(config) THEN Returned(config[1].maxLength)
    ELSE IF abort THEN Thrown("abort") ELSE Returned(garbage)

\* Lines 848-853: the loop of toLspType(ArrayRef<InlayHint>) from hint i on.
RECURSIVE convertHints(_, _, _, _, _)
convertHints(hints, i, config, garbage, abort) ==
    IF i > Len(hints) THEN Returned(<<>>)
    ELSE IF has_value(config) /\ ~isAvailableWithOption(hints[i].kind, config[1])
         THEN convertHints(hints, i + 1, config, garbage, abort)
         ELSE LET maxLength == Dereference(config, garbage, abort)
                  lspHint == IF maxLength.thrown # "" THEN maxLength
                             ELSE toLspHint(hints[i], maxLength.value)
                  rest == convertHints(hints, i + 1, config, garbage, abort)
              IN  IF lspHint.thrown # "" THEN lspHint
                  ELSE IF rest.thrown # "" THEN rest
                  ELSE Returned(<<lspHint.value>> \o rest.value)

\* Whether the loop evaluates config->maxLength: it does for every hint it
\* does not skip.
readsConfig(hints, config) ==
    \E i \in DOMAIN hints :
        ~(has_value(config) /\ ~isAvailableWithOption(hints[i].kind, config[1]))

(***************************************************************************)
(* The calls into the inlay-hint feature: each behaviour takes the         *)
(* arguments of one call and applies the function to them.                 *)
(***************************************************************************)
ShrinkInputs == [fn : {"shrinkHintText"}, text : Texts, maxLength : MaxLengths]

VisitInputs ==
    [fn : {"VisitInitListExpr"}, inits : InitLists,
     config : {[DefaultOption EXCEPT !.maxArrayElements = n] : n \in 0..MaxInits}]

IndexInputs == [fn : {"inlayHints"}, inits : InitLists]

\* The hints handed to toLspType: short lists of hints of a few kinds, with
\* a short and a long label.
MaxHints == 2
InputKinds == {"Invalid", "AutoDecl", "Parameter", "IfBlockEnd", "ArrayIndex"}
InputHints ==
    [kind : InputKinds, offset : {0}, lable : {<<"a">>, <<"a", "b", "a", "b">>}]

RECURSIVE HintListsOfLen(_)
HintListsOfLen(n) ==
    IF n = 0 THEN {<<>>}
    ELSE {Append(l, h) : l \in HintListsOfLen(n - 1), h \in InputHints}

HintLists == UNION {HintListsOfLen(n) : n \in 0..MaxHints}

OptionalConfigs ==
    {nullopt, <<DefaultOption>>, <<enableAll>>,
     <<[DefaultOption EXCEPT !.maxLength = 3, !.dedcucedType = FALSE]>>,
     <<[DefaultOption EXCEPT !.maxArrayElements = 0, !.blockEnd = TRUE]>>}

LspInputs == [fn : {"toLspType"}, hints : HintLists, config : OptionalConfigs]

InitHints ==
    /\ NoBuild
    /\ input \in ShrinkInputs \cup VisitInputs \cup IndexInputs \cup LspInputs
    /\ output = NoOutput

\* The call returns or throws outcome.
Produce(outcome, readAbsent) ==
    /\ output = NoOutput
    /\ output' = [fn |-> input.fn, thrown |-> outcome.thrown, value |-> outcome.value,
                  readAbsent |-> readAbsent]
    /\ UNCHANGED <<input, buildVars>>

ShrinkHintText ==
    /\ input.fn = "shrinkHintText"
    /\ Produce(shrinkHintText(input.text, input.maxLength), FALSE)

\* The collector of the request overload visits an initializer list.
VisitInitList ==
    /\ input.fn = "VisitInitListExpr"
    /\ Produce(Returned(VisitInitListExpr(input.inits, input.config)), FALSE)

\* Lines 810-835: the index overload of inlayHints visits it with enableAll.
InlayHintsIndex ==
    /\ input.fn = "inlayHints"
    /\ Produce(Returned(VisitInitListExpr(input.inits, enableAll)), FALSE)

\* Lines 837-857: toLspType(result, docuri, config, content, SC).
ToLspType ==
    /\ input.fn = "toLspType"
    /\ \E garbage \in MaxLengths, abort \in BOOLEAN :
          Produce(convertHints(input.hints, 1, input.config, garbage, abort),
                  ~has_value(input.config) /\ readsConfig(input.hints, input.config))

NextHints ==
    \/ ShrinkHintText
    \/ VisitInitList
    \/ InlayHintsIndex
    \/ ToLspType

SpecHints == InitHints /\ [][NextHints]_vars

(***************************************************************************)
(* Inlay hints: InlayHintCollector, the traversal of the main file.        *)
(***************************************************************************)
\* The lines of the main file that carry a node; the texts of the model
\* have one hint position on each line, so an offset names its line.
Lines == {1, 2}

\* SourceConverter::toPosition as used at lines 588-589.
toPosition(offset) == [line |-> offset]

\* Lines 88-90: tryShrinkHintText with onlyMain set.
tryShrinkHintText(text, config) == shrinkHintText(text, config.maxLength).value

\* The InlayHint every collect* function builds: kind, offset and a label
\* of one character.
InlayHint(kind, offset, config) ==
    [kind |-> kind, offset |-> offset, lable |-> tryShrinkHintText(<<"a">>, config)]

\* Lines 561-576.
DecideDuplicated == {"AcceptBoth", "Replace", "Ignore"}

\* The kinds isAvailableWithOption (lines 719-726) files under blockEnd.
BlockEndKinds ==
    {"IfBlockEnd", "SwitchBlockEnd", "WhileBlockEnd", "ForBlockEnd",
     "NamespaceEnd", "TagDeclEnd", "FunctionEnd", "LambdaBodyEnd"}

\* Lines 578-610: state is result[main file]; remain tells whether the rest
\* of the line at location starts a comment.
collectBlockEndHint(state, location, remain, kind, decision, config) ==
    IF remain
    THEN state
    ELSE IF /\ decision # "AcceptBoth"
            /\ state # <<>>
            /\ toPosition(state[Len(state)].offset).line = toPosition(location).line
         THEN IF decision = "Replace"
              THEN Append(SubSeq(state, 1, Len(state) - 1),
                          InlayHint(kind, location, config))
              ELSE state
         ELSE Append(state, InlayHint(kind, location, config))

\* Lines 95-120, 166-201 and 427-441: collectAutoDeclTypeHint,
\* collectArgumentHint and collectReturnTypeHint push a hint.
collectHint(state, kind, location, config) ==
    Append(state, InlayHint(kind, location, config))

\* Lines 210-251: decl is a local or file variable; it is a structured
\* binding, or a variable whose type contains auto, or neither.
VarDecls == [type : {"binding", "auto", "plain"}, location : Lines]

VisitVarDecl(state, decl, config) ==
    IF ~config.dedcucedType THEN state
    ELSE IF decl.type = "binding"
         THEN collectHint(state, "StructureBinding", decl.location, config)
         ELSE IF decl.type = "auto"
              THEN collectHint(state, "AutoDecl", decl.location, config)
              ELSE state

\* Lines 299-409: VisitCallExpr, VisitCXXOperatorCallExpr and
\* VisitCXXMemberCallExpr; the call has one argument that needs a hint
\* (lines 150-164), or none.
CallExprs == [hinted : BOOLEAN, location : Lines]

VisitCallExpr(state, call, config) ==
    IF ~config.paramName THEN state
    ELSE IF call.hinted
         THEN collectHint(state, "Parameter", call.location, config)
         ELSE state

\* Lines 410-424.
VisitCXXConstructExpr(state, ctor, config) ==
    IF ~config.paramName THEN state
    ELSE IF ctor.hinted
         THEN collectHint(state, "Constructor", ctor.location, config)
         ELSE state

\* A function or lambda: body tells a definition over several lines,
\* rbrace the line of its closing brace, remain a comment after it,
\* deduced a return type that is deduced and not written, rparen the line
\* the return type hint goes to.
Functions ==
    {f \in [body : BOOLEAN, rbrace : Lines, remain : BOOLEAN,
            deduced : BOOLEAN, rparen : Lines] : f.rparen <= f.rbrace}

\* Lines 443-480.
VisitFunctionDecl(state, decl, config) ==
    LET ended == IF config.blockEnd /\ decl.body
                 THEN collectBlockEndHint(state, decl.rbrace, decl.remain,
                                          "FunctionEnd", "Ignore", config)
                 ELSE state
    IN  IF ~config.returnType THEN ended
        ELSE IF decl.deduced
             THEN collectHint(ended, "FunctionReturnType", decl.rparen, config)
             ELSE ended

\* Lines 482-515.
VisitLambdaExpr(state, expr, config) ==
    LET ended == IF config.blockEnd /\ expr.body
                 THEN collectBlockEndHint(state, expr.rbrace, expr.remain,
                                          "LambdaBodyEnd", "Replace", config)
                 ELSE state
    IN  IF ~config.returnType THEN ended
        ELSE IF expr.deduced
             THEN collectHint(ended, "LambdaReturnType", expr.rparen, config)
             ELSE ended

\* Lines 612-626: a named namespace over several lines, or another one.
Namespaces == [body : BOOLEAN, rbrace : Lines, remain : BOOLEAN]

VisitNamespaceDecl(state, decl, config) ==
    IF ~config.blockEnd THEN state
    ELSE IF ~decl.body THEN state
         ELSE collectBlockEndHint(state, decl.rbrace, decl.remain,
                                  "NamespaceEnd", "Replace", config)

\* Lines 627-653.
collectStructSizeAndAlign(state, decl, config) ==
    IF ~decl.record THEN state
    ELSE collectHint(state, "StructSizeAndAlign", decl.location, config)

\* Lines 655-679: a tag definition; record tells a struct or class,
\* location the line of its name.
TagDecls ==
    {d \in [body : BOOLEAN, rbrace : Lines, remain : BOOLEAN,
            record : BOOLEAN, location : Lines] : d.location <= d.rbrace}

\* VisitTagDecl collecting the size hint whatever the config says.
VisitTagDecl_SizeUnguarded(state, decl, config) ==
    LET ended == IF config.blockEnd /\ decl.body
                 THEN collectBlockEndHint(state, decl.rbrace, decl.remain,
                                          "TagDeclEnd", "Ignore", config)
                 ELSE state
    IN  collectStructSizeAndAlign(ended, decl, config)

VisitTagDecl(state, decl, config) ==
    LET ended == IF config.blockEnd /\ decl.body
                 THEN collectBlockEndHint(state, decl.rbrace, decl.remain,
                                          "TagDeclEnd", "Ignore", config)
                 ELSE state
    IN  IF config.structSizeAndAlign
        THEN collectStructSizeAndAlign(ended, decl, config)
        ELSE ended

\* Lines 517-548 in the collector: the hints of an initializer list whose
\* elements stand on one line.
RECURSIVE collectInits(_, _, _, _, _)
collectInits(state, hints, i, location, config) ==
    IF i > Len(hints) THEN state
    ELSE collectInits(collectHint(state, hints[i].kind, location, config),
                      hints, i + 1, location, config)

\* The options of a request: every switch on or off, maxArrayElements 0 or
\* more, and the default maxLength.
CollectConfigs ==
    {[DefaultOption EXCEPT !.dedcucedType = o.dedcucedType,
                           !.returnType = o.returnType,
                           !.blockEnd = o.blockEnd,
                           !.paramName = o.paramName,
                           !.structSizeAndAlign = o.structSizeAndAlign,
                           !.maxArrayElements = o.maxArrayElements] :
        o \in [dedcucedType : BOOLEAN, returnType : BOOLEAN, blockEnd : BOOLEAN,
               paramName : BOOLEAN, structSizeAndAlign : BOOLEAN,
               maxArrayElements : {0, 1}]}

\* The number of nodes of the translation unit that a visitor handles.
MaxNodes == 2

\* Lines 773-808: the main-file inlayHints builds a collector with the
\* request's config, onlyMain set and an empty Storage.
InitCollect ==
    /\ NoBuild
    /\ input \in [fn : {"collect"}, config : CollectConfigs]
    /\ output = [fn |-> "collect", result |-> <<>>, visited |-> 0]

\* TraverseTranslationUnitDecl (line 805) reaches the next node and the
\* visitor leaves state as result[main file].
Visit(state) ==
    /\ input.fn = "collect"
    /\ output.visited < MaxNodes
    /\ output' = [output EXCEPT !.result = state, !.visited = @ + 1]
    /\ UNCHANGED <<input, buildVars>>

VarDecl ==
    \E decl \in VarDecls : Visit(VisitVarDecl(output.result, decl, input.config))

CallExpr ==
    \E call \in CallExprs : Visit(VisitCallExpr(output.result, call, input.config))

CXXConstructExpr ==
    \E ctor \in CallExprs :
        Visit(VisitCXXConstructExpr(output.result, ctor, input.config))

FunctionDecl ==
    \E decl \in Functions :
        Visit(VisitFunctionDecl(output.result, decl, input.config))

LambdaExpr ==
    \E expr \in Functions : Visit(VisitLambdaExpr(output.result, expr, input.config))

NamespaceDecl ==
    \E decl \in Namespaces :
        Visit(VisitNamespaceDecl(output.result, decl, input.config))

TagDecl ==
    \E decl \in TagDecls : Visit(VisitTagDecl(output.result, decl, input.config))

\* The initializer lists the traversal meets: of one element at most.
ShortInitLists == InitListsOfLen(0) \cup InitListsOfLen(1)

InitListExpr ==
    \E Syn \in ShortInitLists, location \in Lines :
        Visit(collectInits(output.result, VisitInitListExpr(Syn, input.config), 1,
                           location, input.config))

NextCollect ==
    \/ VarDecl
    \/ CallExpr
    \/ CXXConstructExpr
    \/ FunctionDecl
    \/ LambdaExpr
    \/ NamespaceDecl
    \/ TagDecl
    \/ InitListExpr

SpecCollect == InitCollect /\ [][NextCollect]_vars

(***************************************************************************)
(* Properties.                                                             *)
(***************************************************************************)
Range(seq) == {seq[i] : i \in DOMAIN seq}

IsArtifact(r) == r.tag \in {"ASTInfo", "PCHInfo", "PCMInfo"}

\* Target initialization, begin-source-file and execution all succeeded in
\* the current call of caller t.
Succeeded(t) ==
    {"createTarget:ok", "BeginSourceFile:ok", "Execute:ok"} \subseteq Range(log[t])

\* One of the three stages failed in the current call of caller t.
StageFailed(t) ==
    {"createTarget:failed", "BeginSourceFile:failed", "Execute:failed"}
        \cap Range(log[t]) # {}

\* The ASTInfo inside a returned artifact.
InnerInfo(r) == IF r.tag = "ASTInfo" THEN r ELSE r.info

\* C1: an entry point returns an artifact only if target initialization,
\* begin-source-file and action execution all succeeded in that call, and
\* the artifact then holds the executed action and its session; if one of
\* the three fails the call returns a Failure and no artifact.
C1_ArtifactOnlyOnFullSuccess ==
    \A t \in Callers :
        /\ pc[t] = "returned" =>
              /\ IsArtifact(result[t]) <=> Succeeded(t)
              /\ IsArtifact(result[t]) =>
                    /\ InnerInfo(result[t]).tag = "ASTInfo"
                    /\ InnerInfo(result[t]).action.state = "executed"
                    /\ InnerInfo(result[t]).instance.target
              /\ StageFailed(t) => result[t].tag = "Failure"
        /\ pc[t] # "returned" => result[t] = NoResult

C1_Witness ==
    \E t \in Callers :
        /\ pc[t] = "returned"
        /\ mode[t] = "buildPCH"
        /\ "Execute:failed" \in Range(log[t])
        /\ result[t].tag = "Failure"

\* C2: buildPCH on a unit whose path differs from its main path reports an
\* unsupported-request failure to the caller: the process is not halted and
\* the call does not go on to configure and run the action.
C2_UnsupportedRequestReported ==
    \A t \in Callers :
        (mode[t] = "buildPCH" /\ given[t].path # given[t].mainpath) =>
            /\ ~halted
            /\ pc[t] \in {"createInstance", "computeBounds", "returned"}
            /\ pc[t] = "returned" => result[t].tag = "Failure"

\* The statements of ExecuteAction at which the session is configured.
ExecutorPcs ==
    {"executeAction", "createTarget", "beginSourceFile", "collect", "execute", "package"}

\* params without preamble-reuse parameters.
NoReuse(p) == [p EXCEPT !.pch = "", !.bounds = PreambleBounds(0, FALSE)]

\* The session buildAST configures for params p that carry no
\* preamble-reuse parameters.
ColdSession(p) ==
    applyPreamble(addRemappedFile(createInstance(p.args), p.path, p.content),
                  NoReuse(p)).instance

\* C3: in buildAST with bounds.Size = 0 the binder leaves the four preamble
\* options at their defaults, and the session handed to the executor and
\* the ASTInfo returned are those of a build whose params carry no
\* preamble-reuse parameters, whatever pch and the bounds' flag hold.
C3_ZeroBoundsIsColdBuild ==
    \A t \in Callers :
        (mode[t] = "buildAST" /\ given[t].bounds.Size = 0) =>
            /\ pc[t] \in ExecutorPcs =>
                  /\ instance[t][1].opts.UsePredefines
                  /\ instance[t][1].opts.ImplicitPCHInclude = ""
                  /\ instance[t][1].opts.PrecompiledPreambleBytes = <<0, FALSE>>
                  /\ instance[t][1].opts.DisablePCHOrModuleValidation = "None"
                  /\ instance[t][1].opts = ColdSession(given[t]).opts
            /\ (pc[t] = "returned" /\ IsArtifact(result[t])) =>
                  result[t] = ASTInfo([kind |-> "ParseSyntaxOnly", state |-> "executed"],
                                      [ColdSession(given[t]) EXCEPT !.target = TRUE],
                                      "indexed")

C3_Witness ==
    \E t \in Callers :
        /\ mode[t] = "buildAST"
        /\ given[t].bounds = PreambleBounds(0, TRUE)
        /\ given[t].pch = "o1"
        /\ DOMAIN given[t].pcms = {"M", "N"}
        /\ pc[t] = "returned"
        /\ result[t].tag = "ASTInfo"

\* The options of a session with the fields the binder may write set to
\* fixed values: two sessions agree on everything else iff these are equal.
OtherOptions(opts) ==
    [opts EXCEPT !.UsePredefines = TRUE, !.ImplicitPCHInclude = "",
                 !.PrecompiledPreambleBytes = <<0, FALSE>>,
                 !.DisablePCHOrModuleValidation = "None",
                 !.PrebuiltModuleFiles = NoModules]

\* C4: a step of the binder with bounds.Size # 0 leaves the session with
\* predefines disabled, params.pch as the implicit PCH include, the
\* preamble bytes (Size, PreambleEndsAtStartOfLine) and PCH validation
\* disabled, and changes no other preprocessing option.
C4_BinderSetsPreambleOptions ==
    [][\A t \in Callers :
          (pc[t] = "applyPreamble" /\ pc'[t] # "applyPreamble"
             /\ params[t].bounds.Size # 0) =>
              /\ ~instance'[t][1].opts.UsePredefines
              /\ instance'[t][1].opts.ImplicitPCHInclude = params[t].pch
              /\ instance'[t][1].opts.PrecompiledPreambleBytes =
                    <<params[t].bounds.Size, params[t].bounds.PreambleEndsAtStartOfLine>>
              /\ instance'[t][1].opts.DisablePCHOrModuleValidation = "PCH"
              /\ OtherOptions(instance'[t][1].opts) = OtherOptions(instance[t][1].opts)]_vars

C4_Witness ==
    \E t \in Callers :
        /\ pc[t] = "executeAction"
        /\ mode[t] = "buildPCM"
        /\ given[t].bounds.Size = 2
        /\ instance[t][1].opts.ImplicitPCHInclude = "o1"
        /\ instance[t][1].opts.DisablePCHOrModuleValidation = "PCH"

\* The module files the command line of a call already names.
CommandLineModules(t) == createInvocation(given[t].args).PrebuiltModuleFiles

\* C5 as claimed: after the binder has run, the session's prebuilt module
\* files are exactly the pairs of the supplied map.
C5_ExactlySuppliedPairs ==
    \A t \in Callers :
        (appliesPreamble(mode[t]) /\ pc[t] \in ExecutorPcs) =>
            instance[t][1].opts.PrebuiltModuleFiles = given[t].pcms

\* C5 amended: after the binder has run, whether or not bounds.Size is 0,
\* the session's prebuilt module files are the pairs the command line
\* named (-fmodule-file=<name>=<file>) together with the supplied pair of
\* every name the command line did not name; a name the command line
\* named keeps the command line's file.
C5_SuppliedPairsBesideCommandLine ==
    \A t \in Callers :
        (appliesPreamble(mode[t]) /\ pc[t] \in ExecutorPcs) =>
            LET files == instance[t][1].opts.PrebuiltModuleFiles
                cmd == CommandLineModules(t)
            IN  /\ DOMAIN files = DOMAIN cmd \cup DOMAIN given[t].pcms
                /\ \A n \in DOMAIN files :
                      files[n] = IF n \in DOMAIN cmd THEN cmd[n] ELSE given[t].pcms[n]

C5_Witness ==
    \E t \in Callers :
        /\ appliesPreamble(mode[t])
        /\ pc[t] = "executeAction"
        /\ given[t].bounds.Size = 0
        /\ given[t].args = ModuleArgs
        /\ DOMAIN given[t].pcms = {"M", "N"}
        /\ instance[t][1].opts.PrebuiltModuleFiles["N"] = "n.pcm"
        /\ instance[t][1].opts.PrebuiltModuleFiles["M"] = "cmd.pcm"

C7_TokensOnlyInTreeBuild ==
    \A t \in Callers :
        /\ collector[t] = "attached" => mode[t] = "buildAST"
        /\ (pc[t] = "returned" /\ IsArtifact(result[t])) =>
              (InnerInfo(result[t]).tokBuf = "indexed" <=> mode[t] = "buildAST")

\* C8: buildAST, buildPCM and codeCompleteAt have run the binder by the time
\* they call ExecuteAction; buildPCH never runs it: its params stay as
\* passed, and its session has preamble bytes (0, false), no implicit PCH
\* include and no prebuilt module file other than the command line's.
C8_BinderNotInPreambleGeneration ==
    \A t \in Callers :
        /\ (mode[t] \in {"buildAST", "buildPCM", "codeCompleteAt"}
              /\ pc[t] \in ExecutorPcs) => "applyPreamble" \in Range(log[t])
        /\ mode[t] = "buildPCH" =>
              /\ "applyPreamble" \notin Range(log[t])
              /\ pc[t] # "applyPreamble"
              /\ params[t] = given[t]
              /\ pc[t] \in ExecutorPcs =>
                    /\ instance[t][1].opts.PrecompiledPreambleBytes = <<0, FALSE>>
                    /\ instance[t][1].opts.ImplicitPCHInclude = ""
                    /\ instance[t][1].opts.PrebuiltModuleFiles = CommandLineModules(t)
              /\ (pc[t] = "returned" /\ IsArtifact(result[t])) =>
                    /\ result[t].info.instance.opts.PrecompiledPreambleBytes = <<0, FALSE>>
                    /\ result[t].info.instance.opts.ImplicitPCHInclude = ""
                    /\ result[t].info.instance.opts.PrebuiltModuleFiles =
                          CommandLineModules(t)

C8_Witness ==
    \E t \in Callers :
        /\ mode[t] = "buildPCH"
        /\ pc[t] = "returned"
        /\ result[t].tag = "PCHInfo"
        /\ given[t].pch = "o1"
        /\ given[t].bounds.Size = 2
        /\ DOMAIN given[t].pcms = {"M", "N"}

\* The session remaps path to an in-memory buffer.
HasRemap(inst, path) ==
    \E i \in DOMAIN inst.opts.RemappedFiles : inst.opts.RemappedFiles[i][1] = path

\* Statement a comes before statement b in a log that holds b.
Precedes(lg, a, b) ==
    \A j \in DOMAIN lg : lg[j] = b => \E i \in 1..(j - 1) : lg[i] = a

\* C9: in every entry point the text is remapped over params.path before the
\* binder runs and before the executor starts: whenever the binder is about
\* to run, the executor is running or the action has begun, the session has
\* a remapped buffer for the path, and so has the session of every artifact.
C9_RemapBeforeBinderAndAction ==
    \A t \in Callers :
        /\ pc[t] \in {"applyPreamble"} \cup ExecutorPcs =>
              HasRemap(instance[t][1], given[t].path)
        /\ action[t].state \in {"begun", "executed"} =>
              HasRemap(instance[t][1], given[t].path)
        /\ Precedes(log[t], "remap", "applyPreamble")
        /\ Precedes(log[t], "remap", "makeAction")
        /\ (pc[t] = "returned" /\ IsArtifact(result[t])) =>
              HasRemap(InnerInfo(result[t]).instance, given[t].path)

C9_Witness ==
    \E t \in Callers :
        /\ mode[t] = "codeCompleteAt"
        /\ action[t].state = "begun"
        /\ "applyPreamble" \in Range(log[t])
        /\ HasRemap(instance[t][1], given[t].path)

\* C10: the bounds buildPCH computes depend on the text alone: whenever a
\* call has computed bounds for the text of a preamble kept from an earlier
\* call (with whatever arguments, output path and reuse parameters either
\* call had), the bounds are those of the kept preamble.
C10_BoundsDependOnTextAlone ==
    \A t \in Callers :
        (/\ mode[t] = "buildPCH"
         /\ pc[t] \notin {"createInstance", "computeBounds", "terminated"}
         /\ store.pch # <<>>
         /\ store.pch[1].text = given[t].content) =>
            /\ bounds[t] = store.pch[1].bounds
            /\ (pc[t] = "returned" /\ IsArtifact(result[t])) =>
                  result[t].bounds = store.pch[1].bounds

\* A second computation on the text of the kept preamble, in a call with
\* another output path, another command line and bounds of its own.
C10_Witness ==
    \E t \in Callers :
        /\ mode[t] = "buildPCH"
        /\ pc[t] = "setOptions"
        /\ store.pch # <<>>
        /\ store.pch[1].text = given[t].content
        /\ store.pch[1].path # given[t].outpath
        /\ given[t].bounds.Size # 0
        /\ given[t].bounds # store.pch[1].bounds
        /\ given[t].args = ModuleArgs

\* The fixed policy of lines 10-14 on a session's options.
FixedPolicy(opts) ==
    /\ opts.DisableFree = FALSE
    /\ opts.ParseAllComments
    /\ opts.RetainCommentsFromSystemHeaders

\* C11: every session the factory produces, for every argument list, has
\* DisableFree off (the session keeps ownership of its memory and frees it
\* when it is destroyed), ParseAllComments on and
\* RetainCommentsFromSystemHeaders on; no statement of an entry point or of
\* the executor changes them, so they hold in every mode while the executor
\* runs and in the session a returned ASTInfo owns.
C11_FixedPolicyOnEverySession ==
    \A t \in Callers :
        /\ instance[t] # <<>> => FixedPolicy(instance[t][1].opts)
        /\ IsArtifact(result[t]) => FixedPolicy(InnerInfo(result[t]).instance.opts)
        /\ pc[t] \in ExecutorPcs => instance[t] # <<>>

C11_Witness ==
    \E t \in Callers :
        /\ pc[t] = "createTarget"
        /\ mode[t] = "codeCompleteAt"
        /\ given[t].args = ModuleArgs
        /\ given[t].bounds.Size # 0
        /\ instance[t][1].opts.ImplicitPCHInclude # ""
        /\ FixedPolicy(instance[t][1].opts)

\* C12: shrinkHintText(text, maxLength) returns the whole text when
\* maxLength is 0 or the text is no longer than maxLength, and otherwise
\* returns a string of exactly maxLength characters, a prefix of the text
\* followed by "..."; in no case does it throw.
C12_ShrinkKeepsOrCuts ==
    output.fn = "shrinkHintText" =>
        /\ output.thrown = ""
        /\ IF input.maxLength = 0 \/ Len(input.text) <= input.maxLength
           THEN output.value = input.text
           ELSE /\ Len(output.value) = input.maxLength
                /\ \E k \in 0..Len(input.text) :
                      output.value = SubSeq(input.text, 1, k) \o Ellipsis

\* The initializers that are neither designated nor behind a comment.
Eligible(inits) == {i \in DOMAIN inits : ~inits[i].designated /\ ~inits[i].commented}

\* The first n elements of a set of positions.
FirstOf(positions, n) == {i \in positions : Cardinality({j \in positions : j < i}) < n}

Hinted(hints) == {hints[k].offset : k \in DOMAIN hints}

\* C13: an initializer list gets an array-index hint on every eligible
\* element when maxArrayElements is 0 and on the first maxArrayElements
\* eligible elements otherwise; the index overload of inlayHints, whose
\* maxArrayElements is 0, hints every eligible element.
C13_ZeroHintsEveryElement ==
    /\ output.fn = "VisitInitListExpr" =>
          Hinted(output.value) =
              IF input.config.maxArrayElements = 0
              THEN Eligible(input.inits)
              ELSE FirstOf(Eligible(input.inits), input.config.maxArrayElements)
    /\ output.fn = "inlayHints" => Hinted(output.value) = Eligible(input.inits)

\* The hints of a list that are available under config, in their order.
RECURSIVE Available(_, _)
Available(hints, config) ==
    IF hints = <<>> THEN <<>>
    ELSE IF isAvailableWithOption(Head(hints).kind, config)
         THEN <<Head(hints)>> \o Available(Tail(hints), config)
         ELSE Available(Tail(hints), config)

\* out is the conversion of the hints of a list, one for one and in order.
Converts(out, hints) ==
    /\ Len(out) = Len(hints)
    /\ \A k \in DOMAIN hints :
          /\ out[k].kind = toLspKind(hints[k].kind)
          /\ out[k].position = hints[k].offset

\* C14: with a config, toLspType returns the conversions of exactly the
\* hints whose kind is available under it, in input order; without a config
\* it returns the conversion of every hint, in input order, and reads no
\* field of the absent config.
C14_AbsentConfigConvertsAll ==
    output.fn = "toLspType" =>
        /\ output.thrown = ""
        /\ ~output.readAbsent
        /\ IF has_value(input.config)
           THEN Converts(output.value, Available(input.hints, input.config[1]))
           ELSE Converts(output.value, input.hints)

\* C15: the TokenCollector is put on the preprocessor only after
\* BeginSourceFile has succeeded and before Execute starts, and the token
\* buffer is consumed and indexed only after Execute has succeeded; no
\* collector is attached before begin or in a call whose begin failed.
C15_CollectorBetweenBeginAndExecute ==
    \A t \in Callers :
        /\ collector[t] = "attached" =>
              /\ action[t].state \in {"begun", "executed"}
              /\ "BeginSourceFile:ok" \in Range(log[t])
        /\ "collect" \in Range(log[t]) =>
              /\ Precedes(log[t], "BeginSourceFile:ok", "collect")
              /\ \A e \in {"Execute:ok", "Execute:failed"} :
                    e \in Range(log[t]) => Precedes(log[t], "collect", e)
        /\ "BeginSourceFile:failed" \in Range(log[t]) => "collect" \notin Range(log[t])
        /\ (IsArtifact(result[t]) /\ InnerInfo(result[t]).tokBuf = "indexed") =>
              /\ Precedes(log[t], "collect", "Execute:ok")
              /\ Precedes(log[t], "Execute:ok", "package")
        /\ (pc[t] = "execute" /\ collectPP(mode[t])) => collector[t] = "attached"

C15_Witness ==
    \E t \in Callers :
        /\ pc[t] = "returned"
        /\ mode[t] = "buildAST"
        /\ result[t].tag = "ASTInfo"
        /\ result[t].tokBuf = "indexed"
        /\ "collect" \in Range(log[t])

\* The stages of ExecuteAction a call has gone through, in their order.
IsStage(event) ==
    event \in {"createTarget:ok", "createTarget:failed", "BeginSourceFile:ok",
               "BeginSourceFile:failed", "Execute:ok", "Execute:failed", "package"}

Stages(t) == SelectSeq(log[t], IsStage)

FullRun == <<"createTarget:ok", "BeginSourceFile:ok", "Execute:ok", "package">>

\* The prefixes of a full run, and the runs a failed stage ends.
OrderedRuns ==
    {SubSeq(FullRun, 1, n) : n \in 0..Len(FullRun)}
        \cup {<<"createTarget:failed">>,
              <<"createTarget:ok", "BeginSourceFile:failed">>,
              <<"createTarget:ok", "BeginSourceFile:ok", "Execute:failed">>}

\* C16: in every call the executor does target initialization, begin,
\* execute and packaging in that order, each at most once, and nothing
\* after the first stage that fails: no begin after a failed target
\* initialization, no execute after a failed begin, no ASTInfo after a
\* failed execute.
C16_StagesInOrderUntilFailure ==
    \A t \in Callers :
        /\ Stages(t) \in OrderedRuns
        /\ StageFailed(t) => pc[t] \notin ExecutorPcs
        /\ pc[t] = "beginSourceFile" => Stages(t) = SubSeq(FullRun, 1, 1)
        /\ pc[t] = "execute" => Stages(t) = SubSeq(FullRun, 1, 2)
        /\ pc[t] = "package" => Stages(t) = SubSeq(FullRun, 1, 3)

C16_Witness ==
    \E t \in Callers :
        /\ pc[t] = "returned"
        /\ mode[t] = "buildPCM"
        /\ Stages(t) = <<"createTarget:ok", "BeginSourceFile:failed">>
        /\ result[t].tag = "Failure"

\* The Failure a call reports when the stage named in its log failed.
ExecuteFailure(cause) == error("Failed to execute action, because {} ", cause)

Reports(t, value) ==
    /\ "createTarget:failed" \in Range(log[t]) =>
          value = error("Failed to create target", "")
    /\ "BeginSourceFile:failed" \in Range(log[t]) =>
          value = error("Failed to begin source file", "")
    /\ "Execute:failed" \in Range(log[t]) =>
          \E cause \in ExecuteErrors \ {""} : value = ExecuteFailure(cause)

\* C17: a failed target initialization is reported as "Failed to create
\* target", a failed begin as "Failed to begin source file", a failed
\* execute as the execute message with the cause the action returned, the
\* same with and without token collection; ExecuteAction hands that Failure
\* to buildPCH and buildPCM, and every entry point returns it unchanged.
C17_EachStageReportsItsFailure ==
    \A t \in Callers :
        /\ pc[t] = "wrap" => Reports(t, info[t])
        /\ pc[t] = "returned" => Reports(t, result[t])
        /\ (pc[t] = "returned" /\ result[t].tag = "Failure") => StageFailed(t)

C17_Witness ==
    \E t \in Callers :
        /\ pc[t] = "returned"
        /\ mode[t] = "buildPCM"
        /\ "wrap" \in Range(log[t])
        /\ result[t] = ExecuteFailure("fatal error")

\* The bounds of the text a call was given, and the text within them.
FreshBounds(t) == ComputePreamble(given[t].content, DefaultLangOpts, 0)
PreambleText(t) == Substr(given[t].content, FreshBounds(t).Size)

\* C18: in buildPCH with path equal to mainpath the one text remapped into
\* the session is the content up to the bounds computed from the content
\* in that call, whatever params.bounds holds, and a returned PCHInfo
\* records those bounds, params.outpath, the path of the unit and the text
\* within the bounds.
C18_PreambleTextWithinFreshBounds ==
    \A t \in Callers :
        (mode[t] = "buildPCH" /\ given[t].path = given[t].mainpath) =>
            /\ ("remap" \in Range(log[t]) /\ instance[t] # <<>>) =>
                  instance[t][1].opts.RemappedFiles =
                      <<<<given[t].path, PreambleText(t)>>>>
            /\ (pc[t] = "returned" /\ result[t].tag = "PCHInfo") =>
                  /\ result[t].bounds = FreshBounds(t)
                  /\ result[t].path = given[t].outpath
                  /\ result[t].mainpath = given[t].path
                  /\ result[t].preamble = PreambleText(t)
                  /\ result[t].info.instance.opts.RemappedFiles =
                        <<<<given[t].path, PreambleText(t)>>>>

C18_Witness ==
    \E t \in Callers :
        /\ pc[t] = "returned"
        /\ mode[t] = "buildPCH"
        /\ result[t].tag = "PCHInfo"
        /\ given[t].bounds # FreshBounds(t)
        /\ FreshBounds(t).Size > 0
        /\ FreshBounds(t).Size < Len(given[t].content)
        /\ result[t].preamble # given[t].content

\* Caller t holds no session, action or collector of its own.
HoldsNothing(t) ==
    /\ instance[t] = <<>>
    /\ action[t] = NoAction
    /\ collector[t] = "none"

\* Who owns what in a state: outside the body of a call, and once the
\* executor has returned, the entry point holds nothing; a returned
\* artifact holds the session and the executed action, a Failure holds
\* none; a call creates its session once, as its first statement.
SessionsOwnedByArtifacts ==
    \A t \in Callers :
        /\ pc[t] \in {"idle", "createInstance", "wrap", "returned"} => HoldsNothing(t)
        /\ (pc[t] = "returned" /\ IsArtifact(result[t])) =>
              /\ InnerInfo(result[t]).instance.target
              /\ InnerInfo(result[t]).action.state = "executed"
        /\ (pc[t] = "returned" /\ ~IsArtifact(result[t])) =>
              /\ result[t].tag = "Failure"
              /\ DOMAIN result[t] = {"tag", "message", "cause"}
        /\ log[t] # <<>> =>
              /\ log[t][1] = "createInstance"
              /\ Cardinality({i \in DOMAIN log[t] : log[t][i] = "createInstance"}) = 1

\* What a step does to sessions: a call starts from no session and makes a
\* fresh one, with no target and nothing remapped; a statement of one call
\* touches no session, action or returned value of another call.
SessionsNotShared ==
    \A t \in Callers :
        /\ (pc[t] = "createInstance" /\ pc'[t] # "createInstance") =>
              /\ instance[t] = <<>>
              /\ instance'[t] # <<>>
              /\ ~instance'[t][1].target
              /\ instance'[t][1].opts.RemappedFiles = <<>>
        /\ BuildStep(t) =>
              \A u \in Callers \ {t} :
                  /\ instance'[u] = instance[u]
                  /\ action'[u] = action[u]
                  /\ result'[u] = result[u]

\* C19: every build call makes its own fresh session and no session is
\* used by two calls; after a successful build the session and the action
\* are held by the returned ASTInfo alone, and after a failed build no
\* session or action of the call is left.
C19_OneSessionPerCall == []SessionsOwnedByArtifacts /\ [][SessionsNotShared]_vars

C19_Witness ==
    /\ pc[1] = "execute"
    /\ instance[1] # <<>>
    /\ pc[2] = "returned"
    /\ result[2].tag = "PCHInfo"
    /\ HoldsNothing(2)

\* C20: every call of an entry point, whatever its params, in the end
\* returns to its caller with an artifact or with a Failure.
C20_EveryCallReturns ==
    \A t \in Callers :
        (pc[t] = "createInstance") ~>
            (pc[t] = "returned" /\ (IsArtifact(result[t]) \/ result[t].tag = "Failure"))

\* The preamble kept at the path a call names is stale for that call: it
\* was built from another unit, or from a text other than the first
\* bounds.Size bytes of the call's text.
StaleFor(t) ==
    /\ store.pch # <<>>
    /\ store.pch[1].path = given[t].pch
    /\ \/ store.pch[1].mainpath # given[t].path
       \/ store.pch[1].preamble # Substr(given[t].content, given[t].bounds.Size)

\* The session of caller t has the preamble of its params bound.
Bound(t) ==
    /\ instance[t][1].opts.ImplicitPCHInclude = given[t].pch
    /\ instance[t][1].opts.PrecompiledPreambleBytes =
          <<given[t].bounds.Size, given[t].bounds.PreambleEndsAtStartOfLine>>
    /\ instance[t][1].opts.DisablePCHOrModuleValidation = "PCH"

\* C21: once the binder has run in a call with bounds.Size # 0 the preamble
\* the params name is bound to the session, stale or not, and the call has
\* gone on to the executor: the binder reports no Failure and skips nothing.
C21_StalePreambleStillBound ==
    \A t \in Callers :
        (/\ appliesPreamble(mode[t])
         /\ "applyPreamble" \in Range(log[t])
         /\ given[t].bounds.Size # 0) =>
            /\ instance[t] # <<>> => Bound(t)
            /\ IsArtifact(result[t]) =>
                  InnerInfo(result[t]).instance.opts.ImplicitPCHInclude = given[t].pch
            /\ "makeAction" \in Range(log[t]) \/ pc[t] = "executeAction"
            /\ result[t].tag = "Failure" => StageFailed(t)

C21_Witness ==
    \E t \in Callers :
        /\ mode[t] = "buildAST"
        /\ pc[t] = "createTarget"
        /\ given[t].pch = "o1"
        /\ given[t].bounds.Size # 0
        /\ StaleFor(t)
        /\ store.pch[1].mainpath # given[t].path
        /\ store.pch[1].preamble # Substr(given[t].content, given[t].bounds.Size)
        /\ Bound(t)

\* C24: ExecuteAction halts the process for a kind it does not support, and
\* no entry point passes one: every call that reaches the executor has a
\* supported kind and gets its action, and the only halt of a call is the
\* one of buildPCH before the executor, on a unit that is not its own main
\* file.
C24_ExecutorHaltUnreachable ==
    \A t \in Callers :
        /\ pc[t] \in ExecutorPcs => actionKind(mode[t]) \in SupportedKinds
        /\ pc[t] \in ExecutorPcs \ {"executeAction"} =>
              /\ action[t].kind = actionKind(mode[t])
              /\ "makeAction" \in Range(log[t])
        /\ "terminate" \in Range(log[t]) =>
              /\ log[t] = <<"createInstance", "terminate">>
              /\ mode[t] = "buildPCH"
              /\ given[t].path # given[t].mainpath
        /\ halted <=> \E u \in Callers : pc[u] = "terminated"

C24_Witness ==
    \E t \in Callers :
        /\ pc[t] = "createTarget"
        /\ mode[t] = "buildPCM"
        /\ action[t].kind = "GenerateReducedModuleInterface"
        /\ ~halted

\* C25: when an entry point that applies the binder has returned, the
\* caller's params object is as it was when the call began: it names the
\* same prior preamble and holds the same module name -> path map.
C25_BinderLeavesParamsUnchanged ==
    \A t \in Callers :
        (appliesPreamble(mode[t]) /\ pc[t] = "returned") =>
            /\ params[t].pch = given[t].pch
            /\ params[t].pcms = given[t].pcms


\* The result of the traversal so far.
Collected == output.result

\* The hint is one of the block-end kinds.
IsBlockEnd(hint) == hint.kind \in BlockEndKinds

\* When the last stored hint lies on the line of location, Replace puts the
\* new hint in its place and Ignore leaves the result as it is.
Deduplicates ==
    \A location \in Lines, kind \in BlockEndKinds, decision \in {"Replace", "Ignore"} :
        (/\ Collected # <<>>
         /\ toPosition(Collected[Len(Collected)].offset).line = toPosition(location).line) =>
            collectBlockEndHint(Collected, location, FALSE, kind, decision, input.config) =
                IF decision = "Replace"
                THEN Append(SubSeq(Collected, 1, Len(Collected) - 1),
                            InlayHint(kind, location, input.config))
                ELSE Collected

\* No two block-end hints of hints lie on one line.
OneBlockEndPerLine(hints) ==
    \A i, j \in DOMAIN hints :
        (i < j /\ IsBlockEnd(hints[i]) /\ IsBlockEnd(hints[j])) =>
            toPosition(hints[i].offset).line # toPosition(hints[j].offset).line

\* The step took the last hint out of the result.
RemovesLast ==
    /\ Collected # <<>>
    /\ \/ Len(output'.result) < Len(Collected)
       \/ SubSeq(output'.result, 1, Len(Collected)) # Collected

\* C22: when a block-end hint is collected with Replace or Ignore and the
\* last stored hint lies on the same line, Replace removes that hint and
\* appends the new one and Ignore keeps it and drops the new one; so the
\* result never holds two block-end hints on one line, and the only hint a
\* step removes is a block-end hint.
C22_OneBlockEndHintPerLine ==
    [][input.fn = "collect" =>
          /\ Deduplicates
          /\ OneBlockEndPerLine(output'.result)
          /\ RemovesLast => IsBlockEnd(Collected[Len(Collected)])]_vars

====
